---- MODULE Spec2Model ----
(***************************************************************************)
(* State-machine model of the HHI BLE configurator (src/src/App.tsx,       *)
(* first component, lines 1-600): the connect flow, the initial read, the  *)
(* notification wiring, the mode-triggered network refresh, the save       *)
(* handlers and the disconnect handler, over an asynchronous Web Bluetooth *)
(* platform.  Spec is the program without its save handlers, SaveSpec the  *)
(* program with them, CodecSpec the codec helpers applied to their inputs. *)
(*                                                                         *)
(* Every `await` of the source is a suspension point: a flow's position    *)
(* names the platform call it is waiting on, and one step of the model is  *)
(* "the platform settles that call and the continuation runs up to the     *)
(* next await".  Calls awaited back to back on one register                *)
(* (getCharacteristic, then readValue or startNotifications) are one       *)
(* position: settling the first touches no program state, so it commutes   *)
(* with every other step.  A call on an object of a connection that has    *)
(* dropped is rejected on the spot, without a round trip: what is left of  *)
(* a batch then runs to its end within one task, which is one step.        *)
(* Strings are sequences of code points, attribute values are DataViews    *)
(* over byte sequences.  The debug log and the snackbar are outputs        *)
(* nothing reads back: the model keeps what each step appends to logLines  *)
(* (logged) and the toast it raises (toasted).                             *)
(***************************************************************************)
EXTENDS Integers, Sequences, FiniteSets, Bags, TLC

\* ------------------------------------------------------------------ bounds
MaxFlows     == 2   \* onConnect invocations in progress at once
MaxIncidents == 1   \* what happens to one behaviour beyond a clean run: the
                    \* register-level rejections the device injects, the
                    \* notifications it sends, the edits the user makes and
                    \* the save buttons pressed while a save is in progress
MaxRefresh   == 1   \* readNetworkSettings invocations in progress at once
MaxStrLen    == 2   \* code points of a string handed to the codec
DeclaredMaxLen == 3 \* bytes a string register is taken to hold at most (the
                    \* source declares no maximum)

Null == 0

\* ------------------------------------------------------------- BLE UUIDs
BATTERY_SERVICE_UUID    == 6159    \* 0x180f
BATTERY_LEVEL_CHAR_UUID == 10777   \* 0x2a19
HHI_SERVICE_UUID        == 47873   \* 0xbb01

UUIDs ==
  [ operatingMode        |-> 47874, stimAmplitude     |-> 47875,
    stimFrequency        |-> 47876, stimPulseWidth    |-> 47877,
    stimDuration         |-> 47878, emgThreshold      |-> 47879,
    mqttServerPort       |-> 47881, masterNameAddr    |-> 47882,
    minionNameAddr       |-> 47883, wifiSSID          |-> 47884,
    wifiPassword         |-> 47885, wifiStatus        |-> 47886,
    wifiIP               |-> 47887, currentStimAmplitude |-> 47888,
    triggerEnableMask    |-> 47889, triggerStimulation |-> 47890,
    stimNumPulses        |-> 47891 ]

\* ------------------------------------------------------------------ codec
\* A DataView over an ArrayBuffer (bytes are 1-indexed in `buffer`).
DataView(bytes) == [buffer |-> bytes, byteOffset |-> 0, byteLength |-> Len(bytes)]

\* new Uint8Array([n & 0xff]): the low eight bits of n.
\* (Faulty variant: the value is clamped to 0..255 instead of masked.)
toUint8Clamps(n) == <<IF n < 0 THEN 0 ELSE IF n > 255 THEN 255 ELSE n>>
toUint8(n) == <<n % 256>>

\* setUint16(0, n, true) on a two-byte buffer: n is taken modulo 2^16 and
\* stored low byte first.
\* (Faulty variant: the high byte is stored first.)
toUint16BE(n) == <<(n % 65536) \div 256, (n % 65536) % 256>>
toUint16LE(n) == <<(n % 65536) % 256, (n % 65536) \div 256>>

\* UTF-8 encoding as TextEncoder does it: the string is converted to scalar
\* values first (a lone surrogate becomes U+FFFD), no byte-order mark, no
\* terminator, no length limit.
RECURSIVE Utf8Encode(_)
Utf8Encode(s) ==
  IF s = <<>> THEN <<>>
  ELSE
    LET c  == IF s[1] \in 55296..57343 THEN 65533 ELSE s[1]
        b  == IF c < 128 THEN <<c>>
              ELSE IF c < 2048 THEN <<192 + (c \div 64), 128 + (c % 64)>>
              ELSE IF c < 65536
                THEN <<224 + (c \div 4096), 128 + ((c \div 64) % 64), 128 + (c % 64)>>
              ELSE <<240 + (c \div 262144), 128 + ((c \div 4096) % 64),
                     128 + ((c \div 64) % 64), 128 + (c % 64)>>
    IN  b \o Utf8Encode(Tail(s))
encodeStr(s) == Utf8Encode(s)

RangeError == -1   \* DataView accessors throw when the view is too short

fromUint8(dv) ==
  IF dv.byteLength >= 1 THEN dv.buffer[dv.byteOffset + 1] ELSE RangeError

fromUint16LE(dv) ==
  IF dv.byteLength >= 2
    THEN dv.buffer[dv.byteOffset + 1] + 256 * dv.buffer[dv.byteOffset + 2]
    ELSE RangeError

\* UTF-8 decoding as TextDecoder does it (WHATWG): malformed input yields
\* U+FFFD (65533) and decoding resumes at the offending byte.
RECURSIVE Utf8Decode(_)
Utf8Decode(b) ==
  IF b = <<>> THEN <<>>
  ELSE
    LET n       == Len(b)
        b1      == b[1]
        From(k) == SubSeq(b, k, n)
        Cont(k) == n >= k /\ b[k] \in 128..191
        Bad(k)  == <<65533>> \o Utf8Decode(From(k))
    IN  IF b1 < 128 THEN <<b1>> \o Utf8Decode(From(2))
        ELSE IF b1 \in 194..223 THEN
          IF Cont(2)
            THEN <<(b1 - 192) * 64 + (b[2] - 128)>> \o Utf8Decode(From(3))
            ELSE Bad(2)
        ELSE IF b1 \in 224..239 THEN
          LET lo == IF b1 = 224 THEN 160 ELSE 128
              hi == IF b1 = 237 THEN 159 ELSE 191
          IN  IF ~(n >= 2 /\ b[2] \in lo..hi) THEN Bad(2)
              ELSE IF ~Cont(3) THEN Bad(3)
              ELSE <<(b1 - 224) * 4096 + (b[2] - 128) * 64 + (b[3] - 128)>>
                     \o Utf8Decode(From(4))
        ELSE IF b1 \in 240..244 THEN
          LET lo == IF b1 = 240 THEN 144 ELSE 128
              hi == IF b1 = 244 THEN 143 ELSE 191
          IN  IF ~(n >= 2 /\ b[2] \in lo..hi) THEN Bad(2)
              ELSE IF ~Cont(3) THEN Bad(3)
              ELSE IF ~Cont(4) THEN Bad(4)
              ELSE <<(b1 - 240) * 262144 + (b[2] - 128) * 4096
                       + (b[3] - 128) * 64 + (b[4] - 128)>>
                     \o Utf8Decode(From(5))
        ELSE Bad(2)

\* new TextDecoder().decode(dv.buffer): the whole underlying buffer is
\* decoded, and a leading byte-order mark EF BB BF is dropped.
decodeStr(dv) ==
  LET b == dv.buffer
  IN  IF Len(b) >= 3 /\ SubSeq(b, 1, 3) = <<239, 187, 191>>
        THEN Utf8Decode(SubSeq(b, 4, Len(b)))
        ELSE Utf8Decode(b)

\* ------------------------------------------------- the device's registers
\* Attribute values the device returns to a read (one or more per register).
ReadPayloads(u) ==
  CASE u = "operatingMode"     -> {DataView(<<m>>) : m \in 0..3}
    [] u = "stimAmplitude"     -> {DataView(<<176, 4>>)}
    [] u = "emgThreshold"      -> {DataView(<<3>>)}
    [] u = "wifiStatus"        -> {DataView(<<3>>)}
    [] u = "wifiIP"            -> {DataView(<<49, 48>>)}
    [] u = "wifiSSID"          -> {DataView(<<104, 195, 169>>)}
    [] u = "mqttServerPort"    -> {DataView(<<109>>)}
    [] u = "masterNameAddr"    -> {DataView(<<77>>)}
    [] u = "minionNameAddr"    -> {DataView(<<110>>)}
    [] u = "stimFrequency"     -> {DataView(<<50>>)}
    [] u = "stimPulseWidth"    -> {DataView(<<44, 1>>)}
    [] u = "stimDuration"      -> {DataView(<<5>>)}
    [] u = "stimNumPulses"     -> {DataView(<<10, 0>>)}
    [] u = "triggerEnableMask" -> {DataView(<<1>>)}
    [] u = "battery"           -> {DataView(<<80>>)}
    [] OTHER                   -> {}   \* no read permission: the read rejects

\* Attribute values the device pushes in a notification.
NotifyPayloads(u) ==
  CASE u = "wifiStatus"           -> {DataView(<<1>>), DataView(<<2>>)}
    [] u = "wifiIP"               -> {DataView(<<49, 49>>)}
    [] u = "currentStimAmplitude" -> {DataView(<<220, 5>>)}
    [] u = "emgThreshold"         -> {DataView(<<4>>)}
    [] u = "triggerStimulation"   -> {DataView(<<1>>)}
    [] u = "battery"              -> {DataView(<<79>>)}

\* ------------------------------------------------------------------ state
VARIABLES
  device,     \* useState device: Null or the BluetoothDevice
  hhiSvc,     \* useState hhiSvc: Null or the control-service object
  config,     \* the Config and Wi-Fi/MQTT useState cells
  status,     \* the Status useState cells
  logged,     \* output: the lines this step appended to logLines
  toasted,    \* output: the message this step passed to toast ("" if none)
  flow,       \* the onConnect invocation that holds the chooser or has got
              \* past it: the platform call it is suspended on
  superseded, \* onConnect invocations whose device request was superseded by
              \* a newer one and is about to reject
  issued,     \* history: the registers the current onConnect invocation has
              \* started a read of, in the order it did
  refresh,    \* the readNetworkSettings invocations in progress: how many
              \* are suspended on each read of NetworkReads
  linkUp,     \* platform: the GATT server is connected
  subs,       \* registers with a characteristicvaluechanged listener on the
              \* current connection
  fails,      \* register-level rejections injected so far
  events,     \* notifications and user edits so far
  saves,      \* the save/trigger handler invocations in progress (a bag):
              \* the write each is suspended on and the values it closed over
  wrote,      \* output: the writes that settled in this step
  codec       \* the codec helper called last: its argument and what it returned

vars == <<device, hhiSvc, config, status, logged, toasted, flow, superseded,
          issued, refresh, linkUp, subs, fails, events, saves, wrote, codec>>

\* A call of a codec helper.
Call(fn, arg, ret) == [fn |-> fn, arg |-> arg, ret |-> ret]
NoCall == Call("none", <<>>, <<>>)

Dev == 1   \* the BluetoothDevice object
Svc == 1   \* the BluetoothRemoteGATTService object of the control service

\* What the platform answered to a call (kept for the step that consumed it).
Ans(call, reg, ok, dv) == [call |-> call, reg |-> reg, ok |-> ok, dv |-> dv]
NoAnswer == Ans("none", "", TRUE, DataView(<<>>))
Resolved(call, reg) == Ans(call, reg, TRUE, DataView(<<>>))
Rejected(call, reg) == Ans(call, reg, FALSE, DataView(<<>>))
Value(call, reg, dv) == Ans(call, reg, TRUE, dv)

\* The position of an onConnect invocation: the platform call it awaits.
\*   ph   : "idle" | "requestDevice" | "connect" | "battery" | "hhiService"
\*          | "readInitial" | "startNotifications"
\*   i    : index into InitialReads / Subscriptions
\*   st   : the awaited call ("readValue" stands for getCharacteristic then
\*          readValue, "startNotifications" for getCharacteristic then
\*          startNotifications; in the battery block both start from
\*          getPrimaryService)
\*   live : the call was issued on a connection that is still up
\*   last : what the platform answered to the call awaited before this one
At(ph, i, st, live, last) == [ph |-> ph, i |-> i, st |-> st, live |-> live, last |-> last]
Idle == At("idle", 0, "", FALSE, NoAnswer)

\* The calls behind a position, any of which may be the one that rejects.
Calls(ph, st) ==
  CASE ph = "battery" /\ st = "readValue" -> {"getPrimaryService", "getCharacteristic", "readValue"}
    [] ph = "battery"                      -> {"startNotifications"}
    [] OTHER                               -> {"getCharacteristic", st}

\* ------------------------------------------------------------ registers
Reg(uuid, type, cell, name) == [uuid |-> uuid, type |-> type, cell |-> cell, name |-> name]

\* The awaited reads of readInitial, in source order.
InitialReads ==
  << Reg("operatingMode",     "uint8",  "operatingMode",  "Operating Mode"),
     Reg("stimAmplitude",     "uint16", "stimAmplitude",  "Stim Amplitude"),
     Reg("emgThreshold",      "uint8",  "emgThreshold",   "EMG Threshold"),
     Reg("wifiStatus",        "status", "",               "WiFi Status"),
     Reg("wifiIP",            "string", "wifiIP",         "WiFi IP"),
     Reg("wifiSSID",          "string", "wifiSSID",       "WiFi SSID"),
     Reg("mqttServerPort",    "string", "mqttServerPort", "MQTT Server/Port"),
     Reg("masterNameAddr",    "string", "masterNameAddr", "Master Name/Addr"),
     Reg("minionNameAddr",    "string", "minionNameAddr", "Minion Name/Addr"),
     Reg("stimFrequency",     "uint8",  "stimFrequency",  "Stim Frequency"),
     Reg("stimPulseWidth",    "uint16", "stimPulseWidth", "Stim Pulse Width"),
     Reg("stimDuration",      "uint8",  "stimDuration",   "Stim Duration"),
     Reg("stimNumPulses",     "uint16", "stimNumPulses",  "Stim Num Pulses"),
     Reg("triggerEnableMask", "uint8",  "triggerMask",    "Trigger Enable Mask") >>

\* The awaited reads of readNetworkSettings, in source order.
\* (Faulty variant: the refresh reads the Wi-Fi password back as well.)
NetworkReadsWithPassword ==
  << Reg("wifiSSID",       "string", "wifiSSID",       "WiFi SSID"),
     Reg("wifiPassword",   "string", "wifiPassword",   "WiFi Password"),
     Reg("mqttServerPort", "string", "mqttServerPort", "MQTT Server/Port"),
     Reg("masterNameAddr", "string", "masterNameAddr", "Master Name/Addr"),
     Reg("minionNameAddr", "string", "minionNameAddr", "Minion Name/Addr") >>
NetworkReads ==
  << Reg("wifiSSID",       "string", "wifiSSID",       "WiFi SSID"),
     Reg("mqttServerPort", "string", "mqttServerPort", "MQTT Server/Port"),
     Reg("masterNameAddr", "string", "masterNameAddr", "Master Name/Addr"),
     Reg("minionNameAddr", "string", "minionNameAddr", "Minion Name/Addr") >>

ConfigDefault ==
  [ operatingMode |-> 0, stimAmplitude |-> 0, stimFrequency |-> 20,
    stimPulseWidth |-> 200, stimDuration |-> 1, stimNumPulses |-> 0,
    triggerMask |-> 0, emgThreshold |-> 0,
    wifiSSID |-> <<>>, wifiPassword |-> <<>>, mqttServerPort |-> <<>>,
    masterNameAddr |-> <<>>, minionNameAddr |-> <<>> ]

StatusDefault ==
  [ battery |-> 0, wifiConnected |-> FALSE, mqttConnected |-> FALSE,
    wifiIP |-> <<>> ]

NoToast == ""

\* The component as it is mounted.
Mounted ==
  /\ device = Null
  /\ hhiSvc = Null
  /\ config = ConfigDefault
  /\ status = StatusDefault
  /\ logged = <<>>
  /\ toasted = NoToast
  /\ flow = Idle
  /\ superseded = 0
  /\ issued = <<>>
  /\ refresh = [i \in 1..Len(NetworkReads) |-> 0]
  /\ linkUp = FALSE
  /\ subs = {}
  /\ fails = 0
  /\ events = 0
  /\ saves = EmptyBag
  /\ wrote = <<>>

Init == Mounted /\ codec = NoCall

\* ------------------------------------------------------------ UI helpers
Entry(k, name, v) == [k |-> k, name |-> name, v |-> v]
\* log(m) within one step: `lines` is what the step has appended so far.
log(lines, e) == Append(lines, e)

\* ------------------------------------------------------------ the platform
\* The device may reject a call on a live connection (characteristic absent
\* on this firmware, read refused), send a notification, and the user may
\* edit a field, while the behaviour has incidents left.
MayHappen == fails + events < MaxIncidents
MayReject == MayHappen

\* ------------------------------------------------------------ decoding
\* !!(v & k) for a mask k with one bit set.
\* (Faulty variant: the flag is set when the value reaches the mask.)
BitReached(v, k) == v >= k
Bit(v, k) == (v \div k) % 2 = 1
B2N(b) == IF b THEN 1 ELSE 0

\* The decoder a read helper or a notification handler applies.
Decoded(type, dv) ==
  CASE type = "uint8"  -> fromUint8(dv)
    [] type = "uint16" -> fromUint16LE(dv)
    [] type = "status" -> fromUint8(dv)
    [] type = "string" -> decodeStr(dv)
Throws(type, dv) == type # "string" /\ Decoded(type, dv) = RangeError

\* The value as it is interpolated into a log line.
Shown(type, v) ==
  CASE type = "string" -> v
    [] type = "status" -> <<B2N(Bit(v, 1)), B2N(Bit(v, 2))>>
    [] OTHER           -> <<v>>

\* The setter(s) a read or a notification calls with the decoded value v.
ConfigSet(type, cell, v) ==
  IF type # "status" /\ cell \in DOMAIN config
    THEN [config EXCEPT ![cell] = v] ELSE config
StatusSet(type, cell, v) ==
  IF type = "status"
    THEN [status EXCEPT !.wifiConnected = Bit(v, 1), !.mqttConnected = Bit(v, 2)]
    ELSE IF cell \in DOMAIN status THEN [status EXCEPT ![cell] = v] ELSE status

\* ------------------------------------------------------------ useEffect
\* useEffect(..., [operatingMode, hhiSvc]): after a render in which either
\* changed, readNetworkSettings() runs if the mode is 1 or 2; it returns at
\* once when the rendered hhiSvc is null, else it awaits its first call.
\* (Faulty variant: the effect calls readNetworkSettings in every mode.)
EffectFiresInAnyMode(om2, svc2) ==
  om2 # config.operatingMode \/ svc2 # hhiSvc
EffectFires(om2, svc2) ==
  /\ om2 # config.operatingMode \/ svc2 # hhiSvc
  /\ om2 = 1 \/ om2 = 2
RECURSIVE Sum(_)
Sum(q) == IF q = <<>> THEN 0 ELSE q[1] + Sum(Tail(q))
Refreshing == Sum(refresh)
useEffect(om2, svc2) ==
  IF EffectFires(om2, svc2) /\ svc2 # Null
    THEN /\ Refreshing < MaxRefresh
         /\ refresh' = [refresh EXCEPT ![1] = @ + 1]
    ELSE refresh' = refresh

\* --------------------------------------------------------------- connect
\* What a dropped connection has left pending: its rejections are delivered
\* before the user gets to press a button.
Draining ==
  \/ flow.ph \notin {"idle", "requestDevice", "connect"} /\ ~flow.live
  \/ Refreshing > 0 /\ ~linkUp
  \/ saves # EmptyBag /\ ~linkUp

InProgress == (IF flow.ph = "idle" THEN 0 ELSE 1) + superseded

\* onConnect is invoked and runs up to await requestDevice(...).  The
\* connect buttons are rendered only while device is null.  The platform
\* shows one chooser: the new request supersedes a pending one.
onConnect ==
  /\ device = Null
  /\ ~Draining
  /\ InProgress < MaxFlows
  /\ flow' = At("requestDevice", 0, "requestDevice", FALSE, NoAnswer)
  /\ superseded' = IF flow.ph = "requestDevice" THEN superseded + 1 ELSE superseded
  /\ issued' = <<>>
  /\ logged' = log(<<>>, Entry("info", "Requesting BLE device", <<>>))
  /\ toasted' = NoToast
  /\ UNCHANGED <<device, hhiSvc, config, status, refresh, linkUp, subs, fails, events>>

\* A superseded requestDevice rejects: catch, toast("Connection failed").
requestSuperseded ==
  /\ superseded > 0
  /\ superseded' = superseded - 1
  /\ toasted' = "Connection failed"
  /\ logged' = <<>>
  /\ UNCHANGED <<device, hhiSvc, config, status, flow, issued, refresh, linkUp, subs, fails, events>>

\* await navigator.bluetooth.requestDevice(...) settles: the user picks the
\* device (setDevice, addEventListener, log, gatt.connect()) or cancels.
requestDevice ==
  /\ flow.ph = "requestDevice"
  /\ \/ /\ superseded = 0
        /\ device' = Dev
        /\ logged' = log(<<>>, Entry("info", "Connecting GATT", <<>>))
        /\ flow' = At("connect", 0, "connect", FALSE, Resolved("requestDevice", ""))
        /\ toasted' = NoToast
     \/ /\ flow' = Idle
        /\ toasted' = "Connection failed"
        /\ logged' = <<>>
        /\ UNCHANGED device
  /\ UNCHANGED <<hhiSvc, config, status, superseded, issued, refresh, linkUp, subs, fails, events>>

\* await dev.gatt.connect() settles.
gattConnect ==
  /\ flow.ph = "connect"
  /\ \/ /\ linkUp' = TRUE
        /\ flow' = At("battery", 0, "readValue", TRUE, Resolved("connect", ""))
        /\ toasted' = NoToast
     \/ /\ flow' = Idle
        /\ toasted' = "Connection failed"
        /\ UNCHANGED linkUp
  /\ issued' = IF flow'.ph = "battery" THEN Append(issued, "battery") ELSE issued
  /\ logged' = <<>>
  /\ UNCHANGED <<device, hhiSvc, config, status, superseded, refresh, subs, fails, events>>

\* Where onConnect is suspended after the catch of the battery block: on
\* gatt.getPrimaryService(HHI_SERVICE_UUID).
\* (Faulty variant: the battery catch ends the invocation.)
AfterBatteryCatchAborts(live, ans) == At("idle", 0, "", FALSE, ans)
AfterBatteryCatch(live, ans) == At("hhiService", 0, "getPrimaryService", live, ans)

\* The try block "Battery first": getPrimaryService, getCharacteristic and
\* readValue, then startNotifications and addEventListener; one catch.
battery ==
  LET st == flow.st
      \* gatt.getPrimaryService(HHI_SERVICE_UUID) goes to the current connection
      ToHhi(ans) == At("hhiService", 0, "getPrimaryService", linkUp, ans)
      Catch(ans) ==
        /\ logged' = log(<<>>, Entry("fail", "Battery svc err", <<>>))
        /\ flow' = AfterBatteryCatch(linkUp, ans)
        /\ UNCHANGED <<status, subs>>
  IN
  /\ flow.ph = "battery"
  /\ \/ /\ flow.live
        /\ UNCHANGED fails
        /\ \/ /\ st = "readValue"
              /\ \E dv \in ReadPayloads("battery") :
                   IF Throws("uint8", dv)
                     THEN Catch(Value(st, "battery", dv))
                     ELSE /\ status' = StatusSet("uint8", "battery", fromUint8(dv))
                          /\ flow' = At("battery", 0, "startNotifications", TRUE,
                                        Value(st, "battery", dv))
                          /\ logged' = <<>>
                          /\ UNCHANGED subs
           \/ /\ st = "startNotifications"
              /\ subs' = subs \cup {"battery"}
              /\ flow' = ToHhi(Resolved(st, "battery"))
              /\ logged' = <<>>
              /\ UNCHANGED status
        /\ toasted' = NoToast
     \/ /\ flow.live
        /\ MayReject
        /\ fails' = fails + 1
        /\ \E call \in Calls("battery", st) : Catch(Rejected(call, "battery"))
        /\ toasted' = NoToast
     \/ \* the connection is gone: the pending call rejects, and so does
        \* gatt.getPrimaryService(HHI_SERVICE_UUID) after the catch
        /\ ~flow.live
        /\ logged' = log(<<>>, Entry("fail", "Battery svc err", <<>>))
        /\ flow' = Idle
        /\ toasted' = "Connection failed"
        /\ UNCHANGED <<status, subs, fails>>
  /\ UNCHANGED <<device, hhiSvc, config, superseded, issued, refresh, linkUp, events>>

\* await gatt.getPrimaryService(HHI_SERVICE_UUID) settles; on success
\* setHhiSvc(service) and readInitial(service) runs up to its first await.
hhiService ==
  /\ flow.ph = "hhiService"
  /\ \/ /\ flow.live
        /\ hhiSvc' = Svc
        /\ logged' = log(<<>>, Entry("info", "Starting initial parameter read", <<>>))
        /\ flow' = At("readInitial", 1, "readValue", TRUE, Resolved("getPrimaryService", "hhi"))
        /\ issued' = Append(issued, InitialReads[1].uuid)
        /\ useEffect(config.operatingMode, Svc)
        /\ toasted' = NoToast
     \/ /\ flow' = Idle
        /\ toasted' = "Connection failed"
        /\ logged' = <<>>
        /\ UNCHANGED <<hhiSvc, issued, refresh>>
  /\ UNCHANGED <<device, config, status, superseded, linkUp, subs, fails, events>>

\* ---------------------------------------------------------- initial read
\* Where onConnect is suspended after the read helper for entry i returned
\* (the next read, or the first subscribe of startNotifications), and the
\* lines logged on the way there.
\* (Faulty variant: the subscriptions start after the network registers,
\* before the mode-3 parameters are read.)
AfterReadArmsEarly(i, live, ans) ==
  IF i < Len(InitialReads) /\ InitialReads[i].uuid # "minionNameAddr"
    THEN At("readInitial", i + 1, "readValue", live, ans)
    ELSE At("startNotifications", 1, "startNotifications", live, ans)
\* (Faulty variant: the mode-3 parameters are read in mode 3 only.)
AfterReadInMode(i, live, ans) ==
  IF i < Len(InitialReads)
     /\ (InitialReads[i].uuid # "minionNameAddr" \/ config.operatingMode = 3)
    THEN At("readInitial", i + 1, "readValue", live, ans)
    ELSE At("startNotifications", 1, "startNotifications", live, ans)
\* (Faulty variant: after the last read helper onConnect awaits a promise
\* that nothing settles.)
AfterReadHangs(i, live, ans) ==
  IF i < Len(InitialReads)
    THEN At("readInitial", i + 1, "readValue", live, ans)
    ELSE At("pending", 0, "", live, ans)
\* (Faulty variant: the read after the one that returned is left out.)
AfterReadSkips(i, live, ans) ==
  IF i + 1 < Len(InitialReads)
    THEN At("readInitial", i + 2, "readValue", live, ans)
    ELSE At("startNotifications", 1, "startNotifications", live, ans)
AfterRead(i, live, ans) ==
  IF i < Len(InitialReads)
    THEN At("readInitial", i + 1, "readValue", live, ans)
    ELSE At("startNotifications", 1, "startNotifications", live, ans)
\* The catch of a read helper logs and returns: readInitial goes on.
\* (Faulty variant: a failed read ends the invocation.)
ReadFailedAborts(i, live, ans) == At("idle", 0, "", FALSE, ans)
ReadFailed(i, live, ans) == AfterRead(i, live, ans)
\* ... and it calls no setter.
\* (Faulty variant: the catch puts the cell back to its default.)
CatchConfigResets(e) ==
  IF e.cell \in DOMAIN config THEN [config EXCEPT ![e.cell] = ConfigDefault[e.cell]] ELSE config
CatchConfig(e) == config
AfterReadLog(i, lines) ==
  IF i = Len(InitialReads)
    THEN log(lines, Entry("info", "Initial read sequence finished", <<>>))
  ELSE IF InitialReads[i].uuid = "minionNameAddr"
    THEN log(lines, Entry("info", "Attempting to read Mode 3-centric stimulation parameters", <<>>))
  ELSE lines

\* The lines the catch blocks of the reads i..Len(InitialReads) log when each
\* of them rejects.
RECURSIVE FailedReads(_, _)
FailedReads(i, lines) ==
  IF i > Len(InitialReads) THEN lines
  ELSE FailedReads(i + 1,
         AfterReadLog(i, log(lines, Entry("fail", InitialReads[i].name,
                                          <<UUIDs[InitialReads[i].uuid]>>))))

\* The awaited calls of one read helper (readUint8, readUint16LE, readString
\* or the inline Wi-Fi status block) settle.
readInitial ==
  LET i  == flow.i
      e  == InitialReads[i]
      Catch(ans) ==
        /\ logged' = AfterReadLog(i, log(<<>>, Entry("fail", e.name, <<UUIDs[e.uuid]>>)))
        /\ flow' = ReadFailed(i, flow.live, ans)
        /\ config' = CatchConfig(e)
        /\ UNCHANGED <<status, refresh>>
  IN
  /\ flow.ph = "readInitial"
  /\ \/ /\ flow.live
        /\ UNCHANGED fails
        /\ \E dv \in ReadPayloads(e.uuid) :
             IF Throws(e.type, dv)
               THEN Catch(Value("readValue", e.uuid, dv))
               ELSE LET v == Decoded(e.type, dv) IN
                    /\ config' = ConfigSet(e.type, e.cell, v)
                    /\ status' = StatusSet(e.type, e.cell, v)
                    /\ logged' = AfterReadLog(i, log(<<>>, Entry("read", e.name, Shown(e.type, v))))
                    /\ flow' = AfterRead(i, TRUE, Value("readValue", e.uuid, dv))
                    /\ useEffect(config'.operatingMode, hhiSvc)
        /\ issued' = IF flow'.ph = "readInitial"
                       THEN Append(issued, InitialReads[flow'.i].uuid) ELSE issued
        /\ toasted' = NoToast
     \/ /\ flow.live
        /\ MayReject
        /\ fails' = fails + 1
        /\ \E call \in Calls("readInitial", "readValue") : Catch(Rejected(call, e.uuid))
        /\ issued' = IF flow'.ph = "readInitial"
                       THEN Append(issued, InitialReads[flow'.i].uuid) ELSE issued
        /\ toasted' = NoToast
     \/ \* the connection is gone: the pending read rejects, and so does every
        \* getCharacteristic of the reads and subscriptions that follow; then
        \* onConnect shows its confirmation and returns
        /\ ~flow.live
        /\ logged' = FailedReads(i, <<>>)
        /\ issued' = issued \o [j \in 1..(Len(InitialReads) - i) |-> InitialReads[i + j].uuid]
        /\ config' = CatchConfig(e)
        /\ flow' = Idle
        /\ toasted' = "Connected"
        /\ UNCHANGED <<status, refresh, fails>>
  /\ UNCHANGED <<device, hhiSvc, superseded, linkUp, subs, events>>

\* ---------------------------------------------------------- notifications
\* The subscribe(...) calls of startNotifications, in source order.
\* (Faulty variant: the EMG threshold handler calls the amplitude setter.)
SubscriptionsCrossed ==
  << Reg("wifiStatus",           "status", "",              "wifiStatus"),
     Reg("wifiIP",               "string", "wifiIP",        "wifiIP"),
     Reg("currentStimAmplitude", "uint16", "stimAmplitude", "currentStimAmplitude"),
     Reg("emgThreshold",         "uint8",  "stimAmplitude", "emgThreshold"),
     Reg("triggerStimulation",   "uint8",  "",              "triggerStimulation") >>
\* (Faulty variant: the EMG threshold handler decodes two bytes.)
SubscriptionsWide ==
  << Reg("wifiStatus",           "status", "",              "wifiStatus"),
     Reg("wifiIP",               "string", "wifiIP",        "wifiIP"),
     Reg("currentStimAmplitude", "uint16", "stimAmplitude", "currentStimAmplitude"),
     Reg("emgThreshold",         "uint16", "emgThreshold",  "emgThreshold"),
     Reg("triggerStimulation",   "uint8",  "",              "triggerStimulation") >>
Subscriptions ==
  << Reg("wifiStatus",           "status", "",              "wifiStatus"),
     Reg("wifiIP",               "string", "wifiIP",        "wifiIP"),
     Reg("currentStimAmplitude", "uint16", "stimAmplitude", "currentStimAmplitude"),
     Reg("emgThreshold",         "uint8",  "emgThreshold",  "emgThreshold"),
     Reg("triggerStimulation",   "uint8",  "",              "triggerStimulation") >>

\* The listener onConnect adds to the battery characteristic.
BatterySubscription == Reg("battery", "uint8", "battery", "battery")

\* The awaited calls of one subscribe settle (a rejection is swallowed);
\* after the last one onConnect shows its confirmation and returns.
startNotifications ==
  LET i  == flow.i
      e  == Subscriptions[i]
      Advance(ans) ==
        IF i < Len(Subscriptions)
          THEN /\ flow' = At("startNotifications", i + 1, "startNotifications", flow.live, ans)
               /\ toasted' = NoToast
          ELSE /\ flow' = Idle
               /\ toasted' = "Connected"
  IN
  /\ flow.ph = "startNotifications"
  /\ \/ /\ flow.live
        /\ UNCHANGED fails
        /\ subs' = subs \cup {e.uuid}
        /\ Advance(Resolved("startNotifications", e.uuid))
     \/ /\ flow.live
        /\ MayReject
        /\ fails' = fails + 1
        /\ \E call \in Calls("startNotifications", "startNotifications") :
             Advance(Rejected(call, e.uuid))
        /\ UNCHANGED subs
     \/ \* the connection is gone: this subscribe and those that follow
        \* reject and are swallowed
        /\ ~flow.live
        /\ flow' = Idle
        /\ toasted' = "Connected"
        /\ UNCHANGED <<subs, fails>>
  /\ logged' = <<>>
  /\ UNCHANGED <<device, hhiSvc, config, status, superseded, issued, refresh, linkUp, events>>

\* A characteristicvaluechanged event reaches the listener of a live
\* subscription (the platform delivers none for a connection that is gone).
characteristicvaluechanged(e) ==
  /\ linkUp
  /\ e.uuid \in subs
  /\ MayHappen
  /\ events' = events + 1
  /\ \E dv \in NotifyPayloads(e.uuid) :
       IF Throws(e.type, dv)
         THEN logged' = <<>> /\ UNCHANGED <<config, status>>
         ELSE LET v == Decoded(e.type, dv) IN
              /\ config' = ConfigSet(e.type, e.cell, v)
              /\ status' = StatusSet(e.type, e.cell, v)
              /\ logged' =
                   IF e.uuid = "triggerStimulation"
                     THEN log(<<>>, Entry("info",
                            IF v # 0 THEN "Stim started (remote)" ELSE "Stim stopped (remote)", <<>>))
                     ELSE <<>>
  /\ toasted' = NoToast
  /\ UNCHANGED <<device, hhiSvc, flow, superseded, issued, refresh, linkUp, subs, fails>>

\* ------------------------------------------------------------ disconnect
\* The link drops: the platform invalidates the objects of the connection
\* (what is pending on them will reject, their listeners go quiet) and fires
\* gattserverdisconnected; the listener added by onConnect runs
\* onDisconnected.  The effect re-runs on the hhiSvc change and
\* readNetworkSettings returns at its null check.
\* (Faulty variant: the IP address is not cleared.)
DisconnectedStatusKeepsIP(s) ==
  [s EXCEPT !.battery = 0, !.wifiConnected = FALSE, !.mqttConnected = FALSE]
DisconnectedStatus(s) ==
  [s EXCEPT !.battery = 0, !.wifiConnected = FALSE, !.mqttConnected = FALSE,
            !.wifiIP = <<>>]

\* (Faulty variant: the calls pending on the dropped connection still
\* resolve, so the flow goes on as if the link were up.)
onDisconnectedKeepsPending ==
  /\ linkUp
  /\ linkUp' = FALSE
  /\ subs' = {}
  /\ logged' = log(<<>>, Entry("info", "Device disconnected", <<>>))
  /\ toasted' = "Device disconnected"
  /\ device' = Null
  /\ hhiSvc' = Null
  /\ status' = DisconnectedStatus(status)
  /\ UNCHANGED <<flow, config, superseded, issued, refresh, fails, events>>
\* (Faulty variant: the handler puts the configuration fields back to their
\* defaults as well.)
onDisconnectedResetsConfig ==
  /\ linkUp
  /\ linkUp' = FALSE
  /\ flow' = [flow EXCEPT !.live = FALSE]
  /\ subs' = {}
  /\ logged' = log(<<>>, Entry("info", "Device disconnected", <<>>))
  /\ toasted' = "Device disconnected"
  /\ device' = Null
  /\ hhiSvc' = Null
  /\ status' = DisconnectedStatus(status)
  /\ config' = ConfigDefault
  /\ UNCHANGED <<superseded, issued, refresh, fails, events>>
onDisconnected ==
  /\ linkUp
  /\ linkUp' = FALSE
  /\ flow' = [flow EXCEPT !.live = FALSE]
  /\ subs' = {}
  /\ logged' = log(<<>>, Entry("info", "Device disconnected", <<>>))
  /\ toasted' = "Device disconnected"
  /\ device' = Null
  /\ hhiSvc' = Null
  /\ status' = DisconnectedStatus(status)
  /\ UNCHANGED <<config, superseded, issued, refresh, fails, events>>

\* ------------------------------------------------- mode-triggered refresh

\* The lines the catch blocks of the reads i..Len(NetworkReads) log when each
\* of them rejects.
RECURSIVE FailedNetworkReads(_, _)
FailedNetworkReads(i, lines) ==
  IF i > Len(NetworkReads) THEN lines
  ELSE FailedNetworkReads(i + 1,
         log(lines, Entry("fail", NetworkReads[i].name, <<UUIDs[NetworkReads[i].uuid]>>)))

\* The awaited calls of the i-th readString of a readNetworkSettings
\* invocation settle.  The hhiSvc it closed over is of the connection that
\* was up when the effect ran: it is valid while that connection is.
readNetworkSettings(i) ==
  LET e     == NetworkReads[i]
      Moved == IF i < Len(NetworkReads)
                 THEN [refresh EXCEPT ![i] = @ - 1, ![i + 1] = @ + 1]
                 ELSE [refresh EXCEPT ![i] = @ - 1]
  IN
  /\ refresh[i] > 0
  /\ \/ /\ linkUp
        /\ UNCHANGED fails
        /\ \E dv \in ReadPayloads(e.uuid) :
             LET v == decodeStr(dv) IN
             /\ config' = ConfigSet(e.type, e.cell, v)
             /\ logged' = log(<<>>, Entry("read", e.name, v))
        /\ refresh' = Moved
     \/ /\ linkUp
        /\ MayReject
        /\ fails' = fails + 1
        /\ logged' = log(<<>>, Entry("fail", e.name, <<UUIDs[e.uuid]>>))
        /\ refresh' = Moved
        /\ UNCHANGED config
     \/ \* the connection is gone: this read and those that follow reject
        /\ ~linkUp
        /\ logged' = FailedNetworkReads(i, <<>>)
        /\ refresh' = [refresh EXCEPT ![i] = @ - 1]
        /\ UNCHANGED <<config, fails>>
  /\ toasted' = NoToast
  /\ UNCHANGED <<device, hhiSvc, status, flow, superseded, issued, linkUp, subs, events>>

\* ------------------------------------------------------------------- UI
\* The Operating Mode select (rendered while device is set).
selectOperatingMode(v) ==
  /\ device # Null
  /\ v # config.operatingMode
  /\ MayHappen
  /\ events' = events + 1
  /\ config' = [config EXCEPT !.operatingMode = v]
  /\ useEffect(v, hhiSvc)
  /\ logged' = <<>>
  /\ toasted' = NoToast
  /\ UNCHANGED <<device, hhiSvc, status, flow, superseded, issued, linkUp, subs, fails>>

\* --------------------------------------------------------------- writers
\* One awaited write of a save handler: the register, the encoder, the state
\* cell whose value is written and whether a .catch(() => {}) is chained.
Write(uuid, type, cell, caught) == [uuid |-> uuid, type |-> type, cell |-> cell, caught |-> caught]

ModeWrites == << Write("operatingMode", "uint8", "operatingMode", FALSE) >>

\* The awaited writes of saveStimSettings, in source order.
\* (Faulty variant: the pulse width is written with the one-byte encoder.)
StimWritesNarrow ==
  << Write("stimAmplitude",     "uint16", "stimAmplitude",  FALSE),
     Write("stimFrequency",     "uint8",  "stimFrequency",  FALSE),
     Write("stimPulseWidth",    "uint8",  "stimPulseWidth", FALSE),
     Write("stimDuration",      "uint8",  "stimDuration",   TRUE),
     Write("stimNumPulses",     "uint16", "stimNumPulses",  FALSE),
     Write("emgThreshold",      "uint8",  "emgThreshold",   FALSE),
     Write("triggerEnableMask", "uint8",  "triggerMask",    TRUE) >>
StimWrites ==
  << Write("stimAmplitude",     "uint16", "stimAmplitude",  FALSE),
     Write("stimFrequency",     "uint8",  "stimFrequency",  FALSE),
     Write("stimPulseWidth",    "uint16", "stimPulseWidth", FALSE),
     Write("stimDuration",      "uint8",  "stimDuration",   TRUE),
     Write("stimNumPulses",     "uint16", "stimNumPulses",  FALSE),
     Write("emgThreshold",      "uint8",  "emgThreshold",   FALSE),
     Write("triggerEnableMask", "uint8",  "triggerMask",    TRUE) >>

\* The awaited writes of saveNetworkSettings, in source order (the password
\* is written only when the field is not blank).
NetworkWrites ==
  << Write("wifiSSID",       "string", "wifiSSID",       FALSE),
     Write("wifiPassword",   "string", "wifiPassword",   FALSE),
     Write("mqttServerPort", "string", "mqttServerPort", FALSE),
     Write("masterNameAddr", "string", "masterNameAddr", FALSE),
     Write("minionNameAddr", "string", "minionNameAddr", FALSE) >>

TriggerWrites == << Write("triggerStimulation", "uint8", "", FALSE) >>

Writes(kind) ==
  CASE kind = "mode"    -> ModeWrites
    [] kind = "stim"    -> StimWrites
    [] kind = "network" -> NetworkWrites
    [] kind = "trigger" -> TriggerWrites

\* The encoder a write applies to the value.
Encoded(type, v) ==
  CASE type = "uint8"  -> toUint8(v)
    [] type = "uint16" -> toUint16LE(v)
    [] type = "string" -> encodeStr(v)

\* An invocation of a save handler: the write it is suspended on and the
\* values of the render it was created in, one per write.
Saving(kind, i, vals) == [kind |-> kind, i |-> i, vals |-> vals]
Captured(kind) == [j \in 1..Len(Writes(kind)) |-> config[Writes(kind)[j].cell]]
SavesInProgress == BagCardinality(saves)
\* A button pressed while a save handler is still running.
Overlaps == SavesInProgress > 0 /\ hhiSvc # Null

\* A write call that settled: the bytes handed to writeValue and whether the
\* device took them.
Written(uuid, bytes, ok) == [uuid |-> uuid, bytes |-> bytes, ok |-> ok]

\* The write a handler goes on to after write i (past the last one when
\* there is none): if (wifiPassword) guards the password write.
\* (Faulty variant: the password write is not guarded.)
NextWriteUnguarded(sv) == sv.i + 1
NextWrite(sv) ==
  IF sv.kind = "network" /\ sv.i = 1 /\ sv.vals[2] = <<>> THEN 3 ELSE sv.i + 1

\* The toast a handler shows after its last write.
Confirmation(sv) ==
  CASE sv.kind = "mode"    -> "Mode saved"
    [] sv.kind = "stim"    -> "Stimulation parameters saved"
    [] sv.kind = "network" -> "Network settings saved"
    [] sv.kind = "trigger" -> IF sv.vals[1] = 1 THEN "Stim start" ELSE "Stim stop"

\* What the user interface leaves alone.
\* (Faulty variant: a button or a field puts the status back to its default.)
KeepsSessionResets ==
  /\ status' = StatusDefault
  /\ UNCHANGED <<device, hhiSvc, flow, superseded, issued, refresh, linkUp, subs, codec>>
KeepsSession ==
  UNCHANGED <<device, hhiSvc, status, flow, superseded, issued, refresh, linkUp,
              subs, codec>>

\* The user saves a form once the reads that fill it in have finished (or
\* before the control service is resolved): no onConnect invocation is
\* running and no readNetworkSettings is in progress.  A field is edited
\* once onConnect has returned.
FormSettled == flow.ph = "idle" /\ Refreshing = 0

\* A save handler is invoked: it returns at once when the rendered hhiSvc is
\* null, else it runs up to its first await.
\* (Faulty variant: the handler has no null check.)
InvokeUnguarded(kind, vals, lines) ==
  /\ FormSettled
  /\ Overlaps => MayHappen
  /\ events' = IF Overlaps THEN events + 1 ELSE events
  /\ logged' = lines
  /\ saves' = saves (+) SetToBag({Saving(kind, 1, vals)})
  /\ toasted' = NoToast
  /\ wrote' = <<>>
  /\ KeepsSession
  /\ UNCHANGED <<config, fails>>
Invoke(kind, vals, lines) ==
  /\ FormSettled
  /\ Overlaps => MayHappen
  /\ events' = IF Overlaps THEN events + 1 ELSE events
  /\ IF hhiSvc = Null
       THEN /\ logged' = <<>>
            /\ UNCHANGED saves
       ELSE /\ logged' = lines
            /\ saves' = saves (+) SetToBag({Saving(kind, 1, vals)})
  /\ toasted' = NoToast
  /\ wrote' = <<>>
  /\ KeepsSession
  /\ UNCHANGED <<config, fails>>

\* The Save Mode button (rendered while device is set).
saveOperatingMode ==
  /\ device # Null
  /\ Invoke("mode", Captured("mode"), <<>>)

\* The Save Parameters button (rendered in mode 3).
saveStimSettings ==
  /\ device # Null /\ config.operatingMode = 3
  /\ Invoke("stim", Captured("stim"), <<>>)

\* The Save Network button (rendered in modes 1 and 2).
saveNetworkSettings ==
  /\ device # Null /\ config.operatingMode \in {1, 2}
  /\ Invoke("network", Captured("network"),
            log(<<>>, Entry("info", "Saving network settings",
                            <<B2N(config.wifiPassword # <<>>)>>)))

\* The Start Stim / Stop Stim buttons (rendered in mode 3).
triggerStim(on) ==
  /\ device # Null /\ config.operatingMode = 3
  /\ Invoke("trigger", <<B2N(on)>>, <<>>)

\* The values the user types into a field.
FieldInputs(cell) ==
  CASE cell = "stimAmplitude" -> {-1, 1500}
    [] cell = "wifiSSID"      -> {[k \in 1..(DeclaredMaxLen + 1) |-> 110]}
    [] cell = "wifiPassword"  -> {<<112>>}

\* onChange of a field of the stimulation form (rendered in mode 3) or of
\* the network form (rendered in modes 1 and 2).
onChange(cell) ==
  /\ device # Null
  /\ flow.ph = "idle"
  /\ IF cell \in {"wifiSSID", "wifiPassword"}
       THEN config.operatingMode \in {1, 2}
       ELSE config.operatingMode = 3
  /\ MayHappen
  /\ events' = events + 1
  /\ \E v \in FieldInputs(cell) : config' = [config EXCEPT ![cell] = v]
  /\ logged' = <<>>
  /\ toasted' = NoToast
  /\ wrote' = <<>>
  /\ KeepsSession
  /\ UNCHANGED <<saves, fails>>

\* The awaited calls of one write (getCharacteristic, then writeValue) of the
\* invocation sv settle.  The hhiSvc it closed over is of the connection that
\* was up when the button was pressed.
writeValue(sv) ==
  LET W     == Writes(sv.kind)
      w     == W[sv.i]
      bytes == Encoded(w.type, sv.vals[sv.i])
      Rest  == saves (-) SetToBag({sv})
      j     == NextWrite(sv)
      GoOn  ==
        IF j <= Len(W)
          THEN /\ saves' = Rest (+) SetToBag({[sv EXCEPT !.i = j]})
               /\ toasted' = NoToast
               /\ logged' = IF sv.kind = "network" /\ j = 2
                              THEN log(<<>>, Entry("info", "Writing WiFi Password", <<>>))
                              ELSE <<>>
          ELSE /\ saves' = Rest
               /\ toasted' = Confirmation(sv)
               /\ logged' = <<>>
      \* the rejection leaves the handler: through the catch of
      \* saveNetworkSettings, unhandled from the others
      Leave ==
        /\ saves' = Rest
        /\ IF sv.kind = "network"
             THEN /\ logged' = log(<<>>, Entry("fail", "Error saving network settings", <<>>))
                  /\ toasted' = "Save failed"
             ELSE /\ logged' = <<>>
                  /\ toasted' = NoToast
  IN
  /\ BagIn(sv, saves)
  /\ \/ /\ linkUp
        /\ wrote' = <<Written(w.uuid, bytes, TRUE)>>
        /\ GoOn
        /\ UNCHANGED fails
     \/ /\ linkUp
        /\ MayReject
        /\ fails' = fails + 1
        /\ wrote' = <<Written(w.uuid, bytes, FALSE)>>
        /\ IF w.caught THEN GoOn ELSE Leave
     \/ \* the connection is gone: this getCharacteristic and those that
        \* follow reject; the handler ends at the first one without a catch
        /\ ~linkUp
        /\ wrote' = <<>>
        /\ IF \A k \in sv.i..Len(W) : W[k].caught
             THEN /\ saves' = Rest
                  /\ toasted' = Confirmation(sv)
                  /\ logged' = <<>>
             ELSE Leave
        /\ UNCHANGED fails
  /\ UNCHANGED <<device, hhiSvc, config, status, flow, superseded, issued, refresh,
                 linkUp, subs, events, codec>>

\* ------------------------------------------------------------ behaviours
\* What a step of the connect flow, a notification, a refresh or a
\* disconnect leaves alone: it settles no write and calls no save handler.
Quiet == wrote' = <<>> /\ UNCHANGED <<saves, codec>>

Next ==
  \/ onConnect /\ Quiet
  \/ requestSuperseded /\ Quiet
  \/ requestDevice /\ Quiet
  \/ gattConnect /\ Quiet
  \/ battery /\ Quiet
  \/ hhiService /\ Quiet
  \/ readInitial /\ Quiet
  \/ startNotifications /\ Quiet
  \/ \E i \in 1..Len(Subscriptions) : characteristicvaluechanged(Subscriptions[i]) /\ Quiet
  \/ characteristicvaluechanged(BatterySubscription) /\ Quiet
  \/ onDisconnected /\ Quiet
  \/ \E i \in 1..Len(NetworkReads) : readNetworkSettings(i) /\ Quiet
  \/ \E v \in 0..3 : selectOperatingMode(v) /\ Quiet

Spec == Init /\ [][Next]_vars

\* The connect flow on its own, with the disconnect event and the refresh
\* the flow starts; every pending platform call settles in the end.  The
\* user and the link are under no obligation: no fairness on onConnect and
\* onDisconnected.  The invocations are those of a page that has not
\* connected before (issued is empty until gatt.connect() resolves): the
\* chooser may be cancelled and reopened and the button pressed twice, and
\* the link may drop at any point of the invocation that connects.
NextFlow ==
  \/ onConnect /\ issued = <<>> /\ Quiet
  \/ requestSuperseded /\ Quiet
  \/ requestDevice /\ Quiet
  \/ gattConnect /\ Quiet
  \/ battery /\ Quiet
  \/ hhiService /\ Quiet
  \/ readInitial /\ Quiet
  \/ startNotifications /\ Quiet
  \/ onDisconnected /\ Quiet
  \/ \E i \in 1..Len(NetworkReads) : readNetworkSettings(i) /\ Quiet

\* A call pending in the running invocation or in a refresh settles, and
\* so does the requestDevice of a superseded invocation.
PendingSettles ==
  \/ requestDevice /\ Quiet
  \/ gattConnect /\ Quiet
  \/ battery /\ Quiet
  \/ hhiService /\ Quiet
  \/ readInitial /\ Quiet
  \/ startNotifications /\ Quiet
  \/ \E i \in 1..Len(NetworkReads) : readNetworkSettings(i) /\ Quiet

CallsSettle ==
  /\ WF_vars(PendingSettles)
  /\ WF_vars(requestSuperseded /\ Quiet)

FlowSpec == Init /\ [][NextFlow]_vars /\ CallsSettle

\* The program with its save handlers.
NextSave ==
  \/ Next
  \/ saveOperatingMode
  \/ saveStimSettings
  \/ saveNetworkSettings
  \/ \E on \in BOOLEAN : triggerStim(on)
  \/ \E cell \in {"stimAmplitude", "wifiSSID", "wifiPassword"} : onChange(cell)
  \/ \E sv \in BagToSet(saves) : writeValue(sv)

SaveSpec == Init /\ [][NextSave]_vars

\* ------------------------------------------------------- the codec alone
\* The helpers of the codec are pure: the argument is drawn from the sets
\* below, the encoder of its type is applied to it and the matching decoder
\* to what the encoder returned.
Uint8Inputs  == -2..300
Uint16Inputs == -2..70000
\* a, e-acute, the euro sign, an emoji, U+FEFF and a lone high surrogate
Alphabet == {97, 233, 8364, 128512, 65279, 55357}
RECURSIVE StringsOf(_)
StringsOf(n) ==
  IF n = 0 THEN {<<>>}
  ELSE StringsOf(n - 1) \cup
       {Append(t, c) : t \in {u \in StringsOf(n - 1) : Len(u) = n - 1}, c \in Alphabet}
StringInputs == StringsOf(MaxStrLen)

Pure ==
  UNCHANGED <<device, hhiSvc, config, status, logged, toasted, flow, superseded,
              issued, refresh, linkUp, subs, fails, events, saves, wrote>>

\* Attribute values of zero, one and two bytes.
PayloadBytes == {0, 1, 2, 4, 5, 49, 220, 255}
PayloadInputs ==
  {<<>>} \cup {<<a>> : a \in PayloadBytes}
         \cup {<<a, b>> : a \in PayloadBytes, b \in PayloadBytes}

CodecInputs ==
  {Call("uint8", n, <<>>) : n \in Uint8Inputs}
    \cup {Call("uint16", n, <<>>) : n \in Uint16Inputs}
    \cup {Call("string", t, <<>>) : t \in StringInputs}
    \cup {Call("status", <<b>>, <<>>) : b \in 0..255}
    \cup {Call("payload", b, <<>>) : b \in PayloadInputs}

InitCodec == Mounted /\ codec \in CodecInputs

callToUint8 ==
  /\ codec.fn = "uint8"
  /\ codec' = Call("toUint8", codec.arg, toUint8(codec.arg))
  /\ Pure
callToUint16LE ==
  /\ codec.fn = "uint16"
  /\ codec' = Call("toUint16LE", codec.arg, toUint16LE(codec.arg))
  /\ Pure
callEncodeStr ==
  /\ codec.fn = "string"
  /\ codec' = Call("encodeStr", codec.arg, encodeStr(codec.arg))
  /\ Pure
\* The bytes an encoder returned come back from the device as the value of
\* the attribute, and the matching decoder is applied to them.
callFromUint8 ==
  /\ codec.fn = "toUint8"
  /\ codec' = Call("fromUint8", codec.ret, fromUint8(DataView(codec.ret)))
  /\ Pure
callFromUint16LE ==
  /\ codec.fn = "toUint16LE"
  /\ codec' = Call("fromUint16LE", codec.ret, fromUint16LE(DataView(codec.ret)))
  /\ Pure
callDecodeStr ==
  /\ codec.fn = "encodeStr"
  /\ codec' = Call("decodeStr", codec.ret, decodeStr(DataView(codec.ret)))
  /\ Pure

\* The Wi-Fi status handler of readInitial and of startNotifications is
\* applied to a status byte: what it passes to setWifiConnected and
\* setMqttConnected.
wifiStatusHandler ==
  /\ codec.fn = "status"
  /\ LET st == StatusSet("status", "", fromUint8(DataView(codec.arg)))
     IN  codec' = Call("wifiStatus", codec.arg, <<st.wifiConnected, st.mqttConnected>>)
  /\ Pure

\* The registers that are both read at connect and pushed: the register the
\* read goes to and the one the subscription is on.
Mirrored ==
  << <<"wifiStatus", "wifiStatus">>, <<"wifiIP", "wifiIP">>,
     <<"stimAmplitude", "currentStimAmplitude">>,
     <<"emgThreshold", "emgThreshold">>, <<"battery", "battery">> >>
\* The read helper and the notification handler of a register.
ReadPath(u) ==
  IF u = "battery" THEN BatterySubscription
  ELSE InitialReads[CHOOSE i \in 1..Len(InitialReads) : InitialReads[i].uuid = u]
PushPath(u) ==
  IF u = "battery" THEN BatterySubscription
  ELSE Subscriptions[CHOOSE i \in 1..Len(Subscriptions) : Subscriptions[i].uuid = u]
\* The state cells after the helper or handler e was given the value dv: a
\* decoder that throws leaves them as they were.
Stored(e, dv) ==
  IF Throws(e.type, dv) THEN <<config, status>>
  ELSE <<ConfigSet(e.type, e.cell, Decoded(e.type, dv)),
         StatusSet(e.type, e.cell, Decoded(e.type, dv))>>

\* The same attribute value is given to the read helper of a register and to
\* the notification handler of its subscription.
deliverBoth ==
  /\ codec.fn = "payload"
  /\ \E k \in 1..Len(Mirrored) :
       codec' = Call("paths", <<Mirrored[k][1], codec.arg>>,
                     <<Stored(ReadPath(Mirrored[k][1]), DataView(codec.arg)),
                       Stored(PushPath(Mirrored[k][2]), DataView(codec.arg))>>)
  /\ Pure

NextCodec ==
  \/ deliverBoth
  \/ wifiStatusHandler
  \/ callToUint8
  \/ callToUint16LE
  \/ callEncodeStr
  \/ callFromUint8
  \/ callFromUint16LE
  \/ callDecodeStr

CodecSpec == InitCodec /\ [][NextCodec]_vars

\* ================================================================ properties

\* C1 - Missing-register resilience: when the read of a register of
\* readInitial settles while the session stays connected, readInitial moves
\* on to the next register of the sequence (to the first subscription after
\* the last one) whether the read failed or not; a read that succeeded has
\* put the decoded value into the register's state field, a read that failed
\* has changed no field.
C1_ReadFailureSkipsOneRegister ==
  [][ (flow.ph = "readInitial" /\ flow.live
         /\ <<flow'.ph, flow'.i>> # <<flow.ph, flow.i>>)
      => LET i  == flow.i
             e  == InitialReads[i]
             dv == flow'.last.dv
             ok == flow'.last.ok /\ ~Throws(e.type, dv)
         IN  /\ flow'.last.reg = e.uuid
             /\ flow'.live
             /\ <<flow'.ph, flow'.i>> =
                  IF i < Len(InitialReads) THEN <<"readInitial", i + 1>>
                                           ELSE <<"startNotifications", 1>>
             /\ ok /\ e.cell \in DOMAIN config => config'[e.cell] = Decoded(e.type, dv)
             /\ ok /\ e.cell \in DOMAIN status => status'[e.cell] = Decoded(e.type, dv)
             /\ ok /\ e.type = "status" =>
                  /\ status'.wifiConnected = Bit(fromUint8(dv), 1)
                  /\ status'.mqttConnected = Bit(fromUint8(dv), 2)
             /\ ~ok => config' = config /\ status' = status
    ]_vars

\* The EMG threshold read failed on a live session (the field kept its
\* default), the sequence ran to its end and the registers read before and
\* after it are populated.
C1_Witness ==
  /\ flow.ph = "startNotifications" /\ flow.live
  /\ fails = 1
  /\ config.emgThreshold = 0
  /\ config.stimAmplitude = 1200
  /\ status.wifiIP = <<49, 48>>
  /\ config.wifiSSID = <<104, 233>>
  /\ config.stimPulseWidth = 300
  /\ config.triggerMask = 1

\* C2 - Disconnect clears status: the step in which the link drops and
\* onDisconnected runs ends with battery 0, wifiConnected and mqttConnected
\* false, wifiIP empty and both handles null.
C2_DisconnectClearsStatus ==
  [][ (linkUp /\ ~linkUp')
      => /\ status'.battery = 0
         /\ status'.wifiConnected = FALSE
         /\ status'.mqttConnected = FALSE
         /\ status'.wifiIP = <<>>
         /\ device' = Null
         /\ hhiSvc' = Null
    ]_vars

\* onDisconnected has just run on a session whose status had been read
\* (the read of the trigger mask comes after those of the status registers).
C2_Witness ==
  /\ toasted = "Device disconnected"
  /\ fails = 0
  /\ config.triggerMask = 1
  /\ status = StatusDefault
  /\ device = Null /\ hhiSvc = Null

\* C3 - After a disconnect event nothing of the ended session changes a
\* field: while the link is down the Status fields are at their reset
\* defaults and stay there, and a Config field changes only by a user edit.
C3_NoStaleCallbackMutates ==
  [][ (~linkUp /\ ~linkUp')
      => /\ status = StatusDefault
         /\ status' = status
         /\ config' # config => events' = events + 1
    ]_vars

\* The link dropped during the initial read and what was left of the batch
\* has completed (by rejecting): what the session had read is still there,
\* what it had not is at its default.
C3_Witness ==
  /\ ~linkUp /\ device = Null
  /\ flow.ph = "idle" /\ toasted = "Connected"
  /\ Len(issued) = 15
  /\ status = StatusDefault
  /\ config.stimAmplitude = 1200
  /\ config.stimFrequency = 20

\* C4 - No register access outside a session: a read is issued, by an
\* onConnect invocation or by readNetworkSettings, only on a connection that
\* is up (after a disconnect the rest of the batch is abandoned).
C4_NoAccessOutsideSession ==
  [][ /\ Len(issued') > Len(issued) => linkUp'
      /\ (\E i \in 1..Len(NetworkReads) : refresh'[i] > refresh[i]) => linkUp'
    ]_vars

\* C5 - A failing connect step ends Disconnected: when onConnect leaves the
\* device request, the GATT connect or the control-service resolution through
\* its catch, both handles are null and "Connection failed" is shown.
C5_FailedConnectEndsDisconnected ==
  [][ (flow.ph \in {"requestDevice", "connect", "hhiService"} /\ flow'.ph = "idle")
      => /\ toasted' = "Connection failed"
         /\ device' = Null
         /\ hhiSvc' = Null
    ]_vars

\* C6 - One session at a time: while an onConnect invocation is in progress
\* or the control-service handle is stored, no device request is issued.
C6_SecondConnectIsNoOp ==
  [][ (flow.ph # "idle" \/ superseded > 0 \/ hhiSvc # Null)
      => ~ /\ flow'.ph = "requestDevice"
           /\ flow.ph # "requestDevice" \/ superseded' > superseded
    ]_vars

\* C7 (as claimed) - The reads of a connect flow are issued in the canonical
\* order: operating mode; amplitude, frequency, pulse width, duration, pulse
\* count, EMG threshold, trigger-enable mask; connectivity bitmask; IP
\* address; SSID, MQTT server/port, master name, minion name; battery last.
C7_CanonicalOrder ==
  LET order == << "operatingMode", "stimAmplitude", "stimFrequency",
                  "stimPulseWidth", "stimDuration", "stimNumPulses",
                  "emgThreshold", "triggerEnableMask", "wifiStatus", "wifiIP",
                  "wifiSSID", "mqttServerPort", "masterNameAddr",
                  "minionNameAddr", "battery" >>
  IN  \E n \in 0..Len(order) : issued = SubSeq(order, 1, n)

\* C7 (amended) - The reads of a connect flow are issued one at a time in
\* this order: battery level first; operating mode; amplitude and EMG
\* threshold; connectivity bitmask; IP address; SSID, MQTT server/port,
\* master name, minion name; then frequency, pulse width, duration, pulse
\* count and trigger-enable mask.  A read is issued only when the one before
\* it has completed or failed: the flow awaits exactly the last one issued.
C7_SourceOrder ==
  LET order == << "battery", "operatingMode", "stimAmplitude", "emgThreshold",
                  "wifiStatus", "wifiIP", "wifiSSID", "mqttServerPort",
                  "masterNameAddr", "minionNameAddr", "stimFrequency",
                  "stimPulseWidth", "stimDuration", "stimNumPulses",
                  "triggerEnableMask" >>
  IN  /\ \E n \in 0..Len(order) : issued = SubSeq(order, 1, n)
      /\ flow.ph = "readInitial" => issued[Len(issued)] = InitialReads[flow.i].uuid
      /\ flow.ph = "startNotifications" => Len(issued) = Len(order)

\* All fifteen reads have been issued and the last one has settled.
C7_Witness ==
  /\ flow.ph = "startNotifications" /\ flow.live
  /\ Len(issued) = 15
  /\ issued[1] = "battery" /\ issued[15] = "triggerEnableMask"

\* C8 - Register operations are serialized during session setup: from the
\* storing of the control-service handle to the end of the connect flow at
\* most one register operation is in flight, counting those of
\* readNetworkSettings.
C8_OneOperationInFlight ==
  (hhiSvc # Null /\ flow.ph \in {"readInitial", "startNotifications"})
    => 1 + Refreshing <= 1

\* C9 - The session follows Disconnected -> Discovering -> Connecting ->
\* ServiceResolving -> Ready -> Disconnected: every state of the program is
\* one of the five, and a step either stays in its state, takes the next
\* arrow of the chain or leads back to Disconnected.
C9_SessionStateMachine ==
  [][ LET State(d, s, f) ==
            IF f.ph = "requestDevice" THEN "Discovering"
            ELSE IF d = Null THEN "Disconnected"
            ELSE IF f.ph = "connect" THEN "Connecting"
            ELSE IF f.ph \in {"battery", "hhiService"} THEN "ServiceResolving"
            ELSE IF s # Null THEN "Ready"
            ELSE "none"
          Arrows == { <<"Disconnected", "Discovering">>,
                      <<"Discovering", "Connecting">>,
                      <<"Connecting", "ServiceResolving">>,
                      <<"ServiceResolving", "Ready">> }
          a == State(device, hhiSvc, flow)
          b == State(device', hhiSvc', flow')
      IN  b = a \/ b = "Disconnected" \/ <<a, b>> \in Arrows
    ]_vars

\* C10 - A battery failure is not fatal: when resolving or reading the
\* battery service/characteristic fails on a live connection, onConnect goes
\* on to resolve the control service, shows no failure, keeps the device
\* handle and leaves battery at 0.
C10_BatteryFailureNotFatal ==
  [][ (/\ flow.ph = "battery" /\ flow.st = "readValue" /\ flow.live
       /\ <<flow'.ph, flow'.st>> # <<flow.ph, flow.st>>
       /\ ~flow'.last.ok)
      => /\ flow'.ph = "hhiService"
         /\ flow'.live
         /\ toasted' # "Connection failed"
         /\ device' = device
         /\ status'.battery = 0
    ]_vars

\* The battery block failed, and the flow has resolved the control service,
\* run the initial read and armed every notification.
C10_Witness ==
  /\ toasted = "Connected" /\ linkUp
  /\ fails = 1
  /\ status.battery = 0
  /\ "battery" \notin subs
  /\ hhiSvc = Svc
  /\ config.triggerMask = 1 /\ config.stimAmplitude = 1200
  /\ {"wifiStatus", "wifiIP", "currentStimAmplitude", "emgThreshold"} \subseteq subs

\* C11 - The Wi-Fi password register (0xBB0D) is never read: no read of the
\* connect flow and no read of readNetworkSettings is issued on it, whatever
\* the program has done so far; the register is only ever written.
C11_PasswordNeverRead ==
  /\ \A k \in 1..Len(issued) : issued[k] # "wifiPassword"
  /\ flow.ph = "readInitial" => InitialReads[flow.i].uuid # "wifiPassword"
  /\ \A i \in 1..Len(NetworkReads) :
       refresh[i] > 0 => NetworkReads[i].uuid # "wifiPassword"

\* saveNetworkSettings has just written the password the user typed, and the
\* mode-triggered refresh has read the other network registers.
C11_Witness ==
  /\ wrote = <<Written("wifiPassword", <<112>>, TRUE)>>
  /\ UUIDs["wifiPassword"] = 47885
  /\ Len(issued) = 15
  /\ config.masterNameAddr = <<77>>

\* C12 - An amplitude below 0 or above 65535 is rejected before any transport
\* call: no invocation of saveStimSettings that closed over such a value has
\* a write in flight.
C12_AmplitudeRangeChecked ==
  \A sv \in BagToSet(saves) :
    sv.kind = "stim" => sv.vals[1] \in 0..65535

\* C13 - A string longer than the declared maximum is not written: the bytes
\* of a write to a string register that settled are at most DeclaredMaxLen.
C13_LongStringRejected ==
  \A k \in 1..Len(wrote) :
    wrote[k].uuid \in {"wifiSSID", "wifiPassword", "mqttServerPort",
                       "masterNameAddr", "minionNameAddr"}
      => Len(wrote[k].bytes) <= DeclaredMaxLen

\* C14 - A register failure does not abort a bulk write: when a write of
\* saveStimSettings or saveNetworkSettings is rejected on a live connection
\* and is not the last of its batch, the handler goes on to its next write.
C14_BulkWriteGoesOn ==
  [][ \A sv \in BagToSet(saves) :
        (/\ sv.kind \in {"stim", "network"}
         /\ CopiesIn(sv, saves') < CopiesIn(sv, saves)
         /\ linkUp'
         /\ fails' = fails + 1
         /\ NextWrite(sv) <= Len(Writes(sv.kind)))
        => BagIn([sv EXCEPT !.i = NextWrite(sv)], saves')
    ]_vars

\* C15 - Every failed step is logged: a step in which the device rejected a
\* read, a write or a subscription appends a failure entry to logLines.
C15_EveryFailureLogged ==
  [][ fails' = fails + 1 => \E k \in 1..Len(logged') : logged'[k].k = "fail" ]_vars

\* C16 - The access mode is checked before every operation: no subscription
\* is requested on a write-only register (trigger stimulation, Wi-Fi
\* password), and none is ever active on one.
C16_NoSubscribeOnWriteOnly ==
  LET WriteOnly == {"triggerStimulation", "wifiPassword"}
  IN  /\ flow.ph = "startNotifications" => Subscriptions[flow.i].uuid \notin WriteOnly
      /\ subs \cap WriteOnly = {}

\* C17 - Codec round trip: decoding what the encoder returned gives the
\* value back, for every uint8 in 0..255, every uint16 in 0..65535 and every
\* string (of scalar values: no lone surrogate).
C17_RoundTrip ==
  [][ /\ (codec.fn = "toUint8" /\ codec'.fn = "fromUint8" /\ codec.arg \in 0..255)
          => codec'.ret = codec.arg
      /\ (codec.fn = "toUint16LE" /\ codec'.fn = "fromUint16LE" /\ codec.arg \in 0..65535)
          => codec'.ret = codec.arg
      /\ (/\ codec.fn = "encodeStr" /\ codec'.fn = "decodeStr"
          /\ \A k \in 1..Len(codec.arg) : codec.arg[k] \notin 55296..57343)
          => codec'.ret = codec.arg
    ]_vars

\* C18 - uint16 is little-endian: for v in 0..65535 toUint16LE(v) is the two
\* bytes <<v mod 256, v div 256>>; 0x1234 encodes as 0x34, 0x12.
C18_Uint16LittleEndian ==
  (codec.fn = "toUint16LE" /\ codec.arg \in 0..65535)
    => /\ Len(codec.ret) = 2
       /\ codec.ret[1] = codec.arg % 256
       /\ codec.ret[2] = codec.arg \div 256
       /\ codec.arg = 4660 => codec.ret = <<52, 18>>

\* toUint16LE has been applied to 0x1234.
C18_Witness == codec = Call("toUint16LE", 4660, <<52, 18>>)

\* C20 - wifiConnected is bit 0 of the status byte and mqttConnected is bit
\* 1, each whatever the other and the remaining six bits are: 0x03 gives
\* both true, 0x00 both false, 0x01 Wi-Fi only, 0x02 MQTT only.
C20_StatusBits ==
  codec.fn = "wifiStatus"
    => LET b == codec.arg[1]
       IN  /\ codec.ret[1] = (b % 2 = 1)
           /\ codec.ret[2] = ((b \div 2) % 2 = 1)
           /\ b = 3 => codec.ret = <<TRUE, TRUE>>
           /\ b = 0 => codec.ret = <<FALSE, FALSE>>
           /\ b = 1 => codec.ret = <<TRUE, FALSE>>
           /\ b = 2 => codec.ret = <<FALSE, TRUE>>

\* The handler has been applied to 0xFD: bit 0 set, bit 1 clear, all the
\* other bits set.
C20_Witness == codec = Call("wifiStatus", <<253>>, <<TRUE, FALSE>>)

C21_ReadAndPushAgree ==
  codec.fn = "paths" => codec.ret[1] = codec.ret[2]

\* Both paths were given DC 05 for the amplitude and stored 1500.
C21_Witness ==
  /\ codec.fn = "paths"
  /\ codec.arg = <<"stimAmplitude", <<220, 5>>>>
  /\ codec.ret[2][1].stimAmplitude = 1500
  /\ codec.ret[1][1].stimAmplitude = 1500

\* C22 - After a connect in which every characteristic was available,
\* notifications are armed for connectivity status, IP address, the network
\* identity strings (SSID, MQTT server/port, master name, minion name),
\* battery level, the amplitude mirror, the EMG threshold and the
\* stimulation trigger.
C22_AllNotificationsArmed ==
  (flow.ph = "idle" /\ toasted = "Connected" /\ linkUp /\ fails = 0)
    => {"wifiStatus", "wifiIP", "wifiSSID", "mqttServerPort", "masterNameAddr",
        "minionNameAddr", "battery", "currentStimAmplitude", "emgThreshold",
        "triggerStimulation"} \subseteq subs

\* C23 (as claimed) - No subscription, that of the battery characteristic
\* included, is requested or armed before the last read of the initial-read
\* batch has settled.
C23_SubscribeAfterPopulation ==
  (flow.st = "startNotifications" \/ subs # {})
    => flow.ph \in {"startNotifications", "idle"}

\* C23 (amended) - No subscription on a register of the control service is
\* requested or armed before the last read of readInitial has settled; the
\* battery subscription is requested right after the battery read succeeded,
\* before the control service is resolved.
C23_ControlSubscribeAfterPopulation ==
  /\ (flow.ph = "startNotifications" \/ subs \ {"battery"} # {})
       => /\ flow.ph \in {"startNotifications", "idle"}
          /\ Len(issued) = 1 + Len(InitialReads)
  /\ (flow.ph = "battery" /\ flow.st = "startNotifications")
       => /\ flow.last = Value("readValue", "battery", flow.last.dv)
          /\ issued = <<"battery">>
  /\ "battery" \in subs => flow.ph \notin {"requestDevice", "connect", "battery"}

\* The flow is on its third control-service subscription: the battery
\* subscription and the first two are armed and all fifteen reads are done.
C23_Witness ==
  /\ flow.ph = "startNotifications" /\ flow.i = 3 /\ flow.live
  /\ subs = {"battery", "wifiStatus", "wifiIP"}
  /\ Len(issued) = 15

\* C24 - Last write wins per register: a value the device delivers, by a
\* read or by a notification, is decoded into the field of its register (the
\* amplitude mirror into the amplitude field) and into no other field; and
\* apart from a user edit and the disconnect reset nothing else changes a
\* field.  So every field holds the value delivered last for its register.
C24_LastWriteWins ==
  [][ LET b(dv) == dv.buffer
          Apply(u, dv) ==
            CASE u = "wifiStatus" ->
                   <<config, [status EXCEPT !.wifiConnected = b(dv)[1] % 2 = 1,
                                            !.mqttConnected = (b(dv)[1] \div 2) % 2 = 1]>>
              [] u = "wifiIP"  -> <<config, [status EXCEPT !.wifiIP = decodeStr(dv)]>>
              [] u = "battery" -> <<config, [status EXCEPT !.battery = b(dv)[1]]>>
              [] u = "triggerStimulation" -> <<config, status>>
              [] u \in {"stimAmplitude", "currentStimAmplitude"} ->
                   <<[config EXCEPT !.stimAmplitude = b(dv)[1] + 256 * b(dv)[2]], status>>
              [] u \in {"stimPulseWidth", "stimNumPulses"} ->
                   <<[config EXCEPT ![u] = b(dv)[1] + 256 * b(dv)[2]], status>>
              [] u = "triggerEnableMask" ->
                   <<[config EXCEPT !.triggerMask = b(dv)[1]], status>>
              [] u \in {"operatingMode", "stimFrequency", "stimDuration", "emgThreshold"} ->
                   <<[config EXCEPT ![u] = b(dv)[1]], status>>
              [] OTHER -> <<[config EXCEPT ![u] = decodeStr(dv)], status>>
          ReadSettled ==
            /\ flow.ph \in {"readInitial", "battery"} /\ flow.st = "readValue" /\ flow.live
            /\ <<flow'.ph, flow'.i, flow'.st>> # <<flow.ph, flow.i, flow.st>>
            /\ flow'.last.ok
          Notified == events' = events + 1 /\ config'.operatingMode = config.operatingMode
          Refreshed == refresh' # refresh /\ Refreshing' <= Refreshing /\ linkUp /\ fails' = fails
      IN  /\ ReadSettled => <<config', status'>> = Apply(flow'.last.reg, flow'.last.dv)
          /\ Notified =>
               \E u \in subs : \E dv \in NotifyPayloads(u) : <<config', status'>> = Apply(u, dv)
          /\ Refreshed =>
               \E i \in 1..Len(NetworkReads) :
                 /\ refresh'[i] < refresh[i]
                 /\ \E dv \in ReadPayloads(NetworkReads[i].uuid) :
                      <<config', status'>> = Apply(NetworkReads[i].uuid, dv)
          /\ ~ReadSettled /\ ~Notified /\ ~Refreshed =>
               \/ <<config', status'>> = <<config, status>>
               \/ events' = events + 1 /\ status' = status
                    /\ config' = [config EXCEPT !.operatingMode = config'.operatingMode]
               \/ linkUp /\ ~linkUp' /\ config' = config
    ]_vars

\* The amplitude was read as 1200 and a notification of the mirror has
\* since delivered 1500; the fields of the other registers hold what was
\* read for them.
C24_Witness ==
  /\ linkUp /\ flow.ph = "idle" /\ events = 1
  /\ config.stimAmplitude = 1500
  /\ config.emgThreshold = 3 /\ config.triggerMask = 1
  /\ status.battery = 80 /\ status.wifiIP = <<49, 48>>

C26_SaveFailureShown ==
  [][ (Len(wrote') = 1 /\ ~wrote'[1].ok)
        => /\ toasted' = "Save failed"
           /\ \E k \in 1..Len(logged') : logged'[k].k = "fail"
           /\ \A sv \in BagToSet(saves) :
                CopiesIn(sv, saves') < CopiesIn(sv, saves) =>
                  \A j \in (sv.i + 1)..Len(Writes(sv.kind)) :
                    ~BagIn([sv EXCEPT !.i = j], saves')
    ]_vars

\* C27 - Frame: a step of a save handler (the button or one of its writes)
\* changes no field of ConfigState and no field of StatusState; a step that
\* changes a ConfigState field, a user edit among them, changes no
\* StatusState field; and a StatusState field changes only when a read
\* settles, when a notification of a subscribed status register arrives or
\* when the device disconnects.
C27_StatusFrame ==
  [][ /\ (saves' # saves \/ wrote' # <<>>) => (config' = config /\ status' = status)
      /\ config' # config => status' = status
      /\ status' # status =>
           \/ flow.ph \in {"battery", "readInitial"} /\ flow.st = "readValue"
                /\ flow.live /\ flow'.last.ok /\ flow'.last.call = "readValue"
           \/ events' = events + 1
                /\ subs \cap {"battery", "wifiStatus", "wifiIP"} # {}
           \/ linkUp /\ ~linkUp'
    ]_vars

\* saveStimSettings has shown its confirmation, and the fields still hold
\* what the connect flow read: the amplitude 1200 and the battery level.
C27_Witness ==
  /\ toasted = "Stimulation parameters saved" /\ linkUp
  /\ config.stimAmplitude = 1200 /\ status.battery = 80
  /\ saves = EmptyBag

\* C28 - toUint8 masks: for every integer v the result is one byte, the
\* residue of v modulo 256, so a value outside 0..255 is encoded as its low
\* eight bits (300 as 44, 256 as 0, -1 as 255) and not rejected.
C28_Uint8Masks ==
  codec.fn = "toUint8"
    => /\ Len(codec.ret) = 1
       /\ codec.ret[1] \in 0..255
       /\ \E q \in -1..1 : codec.arg = codec.ret[1] + 256 * q
       /\ codec.arg = 300 => codec.ret = <<44>>
       /\ codec.arg = 256 => codec.ret = <<0>>
       /\ codec.arg = -1  => codec.ret = <<255>>

\* toUint8 has been applied to 300, which does not fit in a byte.
C28_Witness == codec = Call("toUint8", 300, <<44>>)

\* C29 - The mode is not enforced: whatever mode 0..3 the first read
\* returns, it is stored in operatingMode, every read helper that returns is
\* followed by the next register of the one fixed list and the batch ends
\* after its last register only; and a write of an invoked save handler is
\* attempted on its register whatever the mode is by then.
C29_ModeNotEnforced ==
  [][ /\ (/\ flow.ph = "readInitial" /\ flow.i = 1 /\ flow.live
          /\ flow' # flow /\ flow'.last.ok /\ flow'.last.call = "readValue")
         => /\ flow'.last.dv \in ReadPayloads("operatingMode")
            /\ config'.operatingMode = flow'.last.dv.buffer[1]
      /\ (flow.ph = "readInitial" /\ flow.live /\ flow'.ph = "readInitial" /\ flow'.i # flow.i)
         => /\ flow'.i = flow.i + 1
            /\ issued' = Append(issued, InitialReads[flow.i + 1].uuid)
      /\ (flow.ph = "readInitial" /\ flow.live /\ flow'.ph # "readInitial")
         => /\ flow.i = Len(InitialReads)
            /\ issued = <<"battery">> \o [k \in 1..Len(InitialReads) |-> InitialReads[k].uuid]
      /\ \A sv \in BagToSet(saves) :
           (CopiesIn(sv, saves') < CopiesIn(sv, saves) /\ linkUp)
             => /\ Len(wrote') = 1
                /\ wrote'[1].uuid = Writes(sv.kind)[sv.i].uuid
    ]_vars

\* All fifteen reads were issued and Save Parameters was pressed in mode 3;
\* the user has since selected another mode, and the handler's write of the
\* stimulation frequency has been acknowledged in that mode.
C29_Witness ==
  /\ config.operatingMode # 3 /\ events = 1
  /\ Len(issued) = 15 /\ issued[15] = "triggerEnableMask"
  /\ Len(wrote) = 1 /\ wrote[1].uuid = "stimFrequency" /\ wrote[1].ok

\* C30 - "Connected" is shown for a live session only: a connect flow that
\* ends by showing the connected confirmation ends on a connection that is
\* up, so a disconnect during the battery read, readInitial or
\* startNotifications keeps the confirmation from being shown.
C30_ConnectedOnlyWhenLive ==
  [][ (flow.ph # "idle" /\ flow'.ph = "idle" /\ toasted' = "Connected")
        => flow.live /\ linkUp' ]_vars

\* C31 - Handle consistency: whenever the control-service handle is set, the
\* device handle is set and the connection it was resolved on is up.  So an
\* onConnect invocation overtaken by a disconnect never stores the service
\* handle after the disconnect handler has cleared it.
C31_HandleConsistency ==
  hhiSvc # Null => (device # Null /\ linkUp)

\* The device disconnected while onConnect was past gatt.connect() and
\* before setHhiSvc; the invocation has ended with "Connection failed" and
\* both handles are null.
C31_Witness ==
  /\ ~linkUp /\ device = Null /\ hhiSvc = Null
  /\ flow.ph = "idle" /\ issued = <<"battery">>
  /\ toasted = "Connection failed"

\* C32 - Connect flow termination: when every pending platform call settles
\* in the end, every onConnect invocation finishes: the running one comes
\* to its end, and as long as superseded ones are pending one of them is
\* ended again and again.  The step that ends an invocation shows
\* "Connected" or "Connection failed", and neither is shown by any other
\* step.
C32_ConnectTerminates ==
  /\ (flow.ph # "idle") ~> (flow.ph = "idle")
  /\ ([]<>(superseded = 0) \/ []<><<superseded' < superseded>>_vars)
  /\ [][ ((flow.ph # "idle" /\ flow'.ph = "idle") \/ superseded' < superseded)
           <=> toasted' \in {"Connected", "Connection failed"} ]_vars

\* An invocation in which one call was rejected has finished with the
\* connected confirmation.
C32_Witness ==
  /\ flow.ph = "idle" /\ toasted = "Connected" /\ linkUp
  /\ fails = 1 /\ superseded = 0

\* C33 - No-op without the service handle: a step taken while the
\* control-service handle is null (and that does not store it) starts no
\* save handler and no refresh, settles no write, logs no line of a save
\* handler and shows no save confirmation unless a handler invoked earlier
\* ends with it; a button pressed then leaves every field as it is.
C33_NoOpWithoutService ==
  [][ (hhiSvc = Null /\ hhiSvc' = Null)
        => /\ \A sv \in BagToSet(saves') : CopiesIn(sv, saves') <= CopiesIn(sv, saves)
           /\ wrote' = <<>>
           /\ \A i \in 1..Len(refresh) : refresh'[i] <= refresh[i]
           /\ \A k \in 1..Len(logged') :
                logged'[k].name \notin {"Saving network settings", "Writing WiFi Password"}
           /\ toasted' \in {"Mode saved", "Stimulation parameters saved",
                            "Network settings saved", "Stim start", "Stim stop",
                            "Save failed"}
                => saves' # saves
    ]_vars

\* A connect attempt has failed after the device was chosen, so the buttons
\* are rendered while the service handle is null; a save button has been
\* pressed since (the failure notice is gone and no edit was made) and
\* nothing is in progress.
C33_Witness ==
  /\ device # Null /\ hhiSvc = Null /\ flow.ph = "idle"
  /\ toasted = NoToast /\ logged = <<>> /\ events = 0
  /\ saves = EmptyBag /\ wrote = <<>>

\* C34 - saveNetworkSettings writes the password register if and only if
\* the password buffer it was invoked with is not empty: after the SSID
\* write is acknowledged the handler goes on to the password when the
\* buffer is non-empty and straight to MQTT server/port when it is empty;
\* then master name, then minion name, then the confirmation.
C34_PasswordWrittenIffProvided ==
  [][ \A sv \in BagToSet(saves) :
        (/\ sv.kind = "network"
         /\ CopiesIn(sv, saves') < CopiesIn(sv, saves)
         /\ Len(wrote') = 1 /\ wrote'[1].ok)
        => LET u    == wrote'[1].uuid
               then == CASE u = "wifiSSID" ->
                              IF sv.vals[2] # <<>> THEN "wifiPassword" ELSE "mqttServerPort"
                         [] u = "wifiPassword"   -> "mqttServerPort"
                         [] u = "mqttServerPort" -> "masterNameAddr"
                         [] u = "masterNameAddr" -> "minionNameAddr"
                         [] OTHER -> "toast"
           IN  /\ u = NetworkWrites[sv.i].uuid
               /\ u = "wifiPassword" => sv.vals[2] # <<>>
               /\ IF then = "toast"
                    THEN /\ toasted' = "Network settings saved"
                         /\ \A j \in 1..Len(NetworkWrites) :
                              CopiesIn([sv EXCEPT !.i = j], saves')
                                <= CopiesIn([sv EXCEPT !.i = j], saves)
                    ELSE \E j \in 1..Len(NetworkWrites) :
                           /\ NetworkWrites[j].uuid = then
                           /\ CopiesIn([sv EXCEPT !.i = j], saves')
                                > CopiesIn([sv EXCEPT !.i = j], saves)
    ]_vars

\* saveNetworkSettings was invoked with an empty password buffer and has
\* shown its confirmation after the minion name was acknowledged.
C34_Witness ==
  /\ toasted = "Network settings saved"
  /\ wrote = <<Written("minionNameAddr", encodeStr(config.minionNameAddr), TRUE)>>
  /\ config.wifiPassword = <<>> /\ events = 0 /\ fails = 0

\* C35 - "Stimulation parameters saved" implies a complete save: the step
\* in which saveStimSettings shows its confirmation is the acknowledgement
\* of its seventh write, the trigger-enable mask, and a handler one of whose
\* writes was rejected does not go on to the writes after it.
C35_StimConfirmationComplete ==
  [][ \A sv \in BagToSet(saves) :
        (sv.kind = "stim" /\ CopiesIn(sv, saves') < CopiesIn(sv, saves))
          => /\ toasted' = "Stimulation parameters saved"
                  => /\ sv.i = Len(StimWrites)
                     /\ wrote' = <<Written("triggerEnableMask",
                                           toUint8(sv.vals[Len(StimWrites)]), TRUE)>>
             /\ (Len(wrote') = 1 /\ ~wrote'[1].ok)
                  => \A j \in 1..Len(StimWrites) :
                       CopiesIn([sv EXCEPT !.i = j], saves')
                         <= CopiesIn([sv EXCEPT !.i = j], saves)
    ]_vars

\* C36 - The value written is the value the user entered: once onConnect
\* has returned, a field that holds what the user typed keeps it until the
\* user types again, whatever notifications and refresh reads arrive, and a
\* save handler invoked then closes over that value.  (The values of
\* FieldInputs are values the device never delivers, but for the amplitude
\* 1500 of the mirror.)
C36_UserValueWritten ==
  [][ (flow.ph = "idle" /\ flow' = flow /\ linkUp /\ linkUp')
        => /\ \A cell \in {"wifiSSID", "wifiPassword"} :
                config[cell] \in FieldInputs(cell) => config'[cell] = config[cell]
           /\ config.stimAmplitude = -1
                => config'.stimAmplitude \in FieldInputs("stimAmplitude")
           /\ \A sv \in BagToSet(saves') :
                (CopiesIn(sv, saves') > CopiesIn(sv, saves) /\ sv.i = 1
                   /\ sv.kind \in {"mode", "stim", "network"})
                  => sv.vals = Captured(sv.kind)
    ]_vars

\* C37 - Refresh of the network fields: a step after which the mode is 1 or
\* 2 and the service handle is set, and which changed one of the two,
\* starts a readNetworkSettings at its first read; no other step starts
\* one (none with the mode 0 or 3, none with the handle null).  Its reads
\* are Wi-Fi SSID, MQTT server/port, master name, minion name, and on a
\* connection that is up each read that returns or fails is followed by the
\* next, the last by none.
C37_NetworkRefresh ==
  [][ LET Ran(i)  == refresh[i] > 0 /\ Sum(refresh') <= Sum(refresh)
                       /\ refresh' # refresh /\ refresh'[i] = refresh[i] - 1
          Started == Sum(refresh') > Sum(refresh)
          Fired   == /\ config'.operatingMode \in {1, 2} /\ hhiSvc' # Null
                     /\ (config'.operatingMode # config.operatingMode \/ hhiSvc' # hhiSvc)
      IN  /\ Fired <=> Started
          /\ Started => refresh' = [refresh EXCEPT ![1] = @ + 1]
          /\ [k \in 1..Len(NetworkReads) |-> NetworkReads[k].uuid]
               = <<"wifiSSID", "mqttServerPort", "masterNameAddr", "minionNameAddr">>
          /\ \A i \in 1..Len(NetworkReads) :
               (Ran(i) /\ linkUp)
                 => refresh' = IF i < Len(NetworkReads)
                                 THEN [refresh EXCEPT ![i] = @ - 1, ![i + 1] = @ + 1]
                                 ELSE [refresh EXCEPT ![i] = @ - 1]
    ]_vars

\* The SSID read of a refresh has just failed while onConnect is not
\* running, and the refresh is on its second read, MQTT server/port.
C37_Witness ==
  /\ flow.ph = "idle" /\ linkUp /\ config.operatingMode \in {1, 2}
  /\ refresh = <<0, 1, 0, 0>>
  /\ Len(logged) = 1 /\ logged[1].k = "fail" /\ logged[1].name = "WiFi SSID"

\* C38 - Frame of the disconnect handler: the step in which the device
\* disconnects leaves every ConfigState field as it was (operating mode,
\* amplitude, frequency, pulse width, duration, pulse count, trigger mask,
\* EMG threshold, SSID, password buffer, MQTT server, master and minion
\* names), starts no refresh and no save handler and settles no write.
C38_DisconnectKeepsConfig ==
  [][ (linkUp /\ ~linkUp')
        => /\ \A f \in {"operatingMode", "stimAmplitude", "stimFrequency", "stimPulseWidth",
                          "stimDuration", "stimNumPulses", "triggerMask", "emgThreshold",
                          "wifiSSID", "wifiPassword", "mqttServerPort", "masterNameAddr",
                          "minionNameAddr"} : config'[f] = config[f]
           /\ DOMAIN config' = DOMAIN config
           /\ refresh' = refresh /\ saves' = saves /\ wrote' = <<>>
    ]_vars

\* The device has just disconnected from a session in which mode 1 and the
\* network names were read and the user typed a password: all of it is
\* still in the fields, and the status is cleared.
C38_Witness ==
  /\ ~linkUp /\ toasted = "Device disconnected" /\ device = Null
  /\ config.operatingMode = 1 /\ config.wifiPassword = <<112>>
  /\ config.wifiSSID # <<>> /\ config.stimAmplitude = 1200
  /\ status = StatusDefault

\* C39 - String decoding returns exactly the attribute payload: the string
\* decodeStr returns for a well-formed UTF-8 payload is built from all of
\* its bytes and from nothing else, so that encoding the string again gives
\* the payload back, byte for byte.
C39_DecodesWholePayload ==
  codec.fn = "decodeStr" => encodeStr(codec.ret) = codec.arg

====
